---- MODULE Spec2Model ----
(***************************************************************************)
(* A model of flarelint/rule.py: the rule registry (_rulebook, _addrule,   *)
(* getrules), the rule classes (_Rule, Error, Warning) with apply(), and   *)
(* the rule loader (_check, load) over a small file system.                *)
(*                                                                         *)
(* Python values are modelled as follows.  A file name is a sequence of    *)
(* one-character strings, so that glob patterns are matched character by   *)
(* character.  A predicate (match, test) is a function from nodes to the   *)
(* outcome of calling it: a returned Python value, or "raise".  A rule     *)
(* object is its index in the sequence `rules` of all objects constructed  *)
(* in this process.                                                        *)
(***************************************************************************)
EXTENDS Integers, Sequences, FiniteSets, TLC

VARIABLES
    rules,        \* the _Rule objects of this process, in construction order
    constructed,  \* history: the class and arguments of each construction
    _rulebook,    \* rule.py:114, dict: extension -> list of rule objects
    ret,          \* what the last call did and returned
    defaultdir,   \* the defaults directory: file name -> content
    userdir,      \* the user rule directory: [exists, files: path -> content]
    seeded,       \* history: some load has copied default files into userdir
    boot          \* history: how the previous load left the directory

vars == <<rules, constructed, _rulebook, ret, defaultdir, userdir, seeded, boot>>

(***************************************************************************)
(* Bounds.                                                                 *)
(***************************************************************************)
MaxRules == 2       \* rule objects per process in the registry specification
MaxExtLen == 2      \* length of an `extensions` list
MaxEvalRules == 2   \* rule objects per process in the evaluation specification
MaxFiles == 3       \* files the user keeps in the user rule directory

(***************************************************************************)
(* resources.ERROR_LEVEL and resources.WARNING_LEVEL: two distinct stable  *)
(* identifiers (spec section 6, severity taxonomy).                        *)
(***************************************************************************)
ERROR_LEVEL == "ERROR_LEVEL"
WARNING_LEVEL == "WARNING_LEVEL"

\* Mutant of _LEVEL: Warning does not override the attribute of _Rule.
_LEVEL_inherited(cls) ==
    CASE cls = "Error" -> ERROR_LEVEL
      [] OTHER -> "Instantiate from rule.Error or rule.Warning instead."

\* rule.py:126, 141, 144: the class attribute _LEVEL of each class.
_LEVEL(cls) ==
    CASE cls = "Error" -> ERROR_LEVEL
      [] cls = "Warning" -> WARNING_LEVEL
      [] OTHER -> "Instantiate from rule.Error or rule.Warning instead."

\* The two public declaration forms.
Classes == {"Error", "Warning"}

\* rule.py:151-155: extension groupings.
TOPICS == <<".htm", ".html">>
TOCS == <<".fltoc">>
CAPTURE_GRAPHICS == <<".props">>

Exts == {".htm", ".html", ".fltoc", ".props"}

Range(s) == {s[i] : i \in DOMAIN s}

\* Python's None, and the truth value of what a predicate returns.
None == [kind |-> "None"]
Raised == [kind |-> "raise"]
Truthy(v) == v \in {"True", "Node"}

(***************************************************************************)
(* The registry.                                                           *)
(***************************************************************************)
\* Mutant of _addrule: a rule already in the list is not appended again.
RECURSIVE _addrule_dedup(_, _, _)
_addrule_dedup(book, extensions, rule) ==
    IF extensions = <<>> THEN book
    ELSE LET e == Head(extensions)
             b1 == IF e \in DOMAIN book THEN book ELSE book @@ (e :> <<>>)
             b2 == IF rule \in Range(b1[e]) THEN b1
                   ELSE [b1 EXCEPT ![e] = Append(@, rule)]
         IN  _addrule_dedup(b2, Tail(extensions), rule)

\* rule.py:116-120.  `rule` is appended once per element of `extensions`.
RECURSIVE _addrule(_, _, _)
_addrule(book, extensions, rule) ==
    IF extensions = <<>> THEN book
    ELSE LET e == Head(extensions)
             b1 == IF e \in DOMAIN book THEN book ELSE book @@ (e :> <<>>)
             b2 == [b1 EXCEPT ![e] = Append(@, rule)]
         IN  _addrule(b2, Tail(extensions), rule)

\* Mutant of getrules: dict.setdefault(extension, []) in place of dict.get.
getrules_setdefault(book, extension) ==
    LET b == IF extension \in DOMAIN book THEN book
             ELSE book @@ (extension :> <<>>)
    IN  [value |-> [kind |-> "list", items |-> b[extension]], book |-> b]

\* rule.py:160-164.  dict.get: the value, and the dict as it leaves it.
getrules(book, extension) ==
    [value |-> IF extension \in DOMAIN book
               THEN [kind |-> "list", items |-> book[extension]]
               ELSE None,
     book |-> book]

\* rule.py:128-132.  The process state after _Rule.__init__ has run.
_Rule_init(st, cls, extensions, match, test, message) ==
    LET self == Len(st.rules) + 1
    IN  [rules |-> Append(st.rules, [level |-> _LEVEL(cls), match |-> match,
                                     test |-> test, message |-> message]),
         constructed |-> Append(st.constructed,
                                [cls |-> cls, extensions |-> extensions,
                                 message |-> message]),
         book |-> _addrule(st.book, extensions, self)]

\* rule.py:105-112.
Result(path, level, node, message) ==
    [kind |-> "Result", path |-> path, level |-> level, node |-> node,
     message |-> message]

\* Mutant of apply: `not` is missing before self.test(node).
apply_test_passes(self, path, node) ==
    LET m == self.match[node]
    IN  IF m = "raise" THEN Raised
        ELSE IF ~Truthy(m) THEN None
        ELSE LET t == self.test[node]
             IN  IF t = "raise" THEN Raised
                 ELSE IF Truthy(t)
                      THEN Result(path, self.level, node, self.message)
                      ELSE None

\* rule.py:134-138.  `and` does not call test when match returned a false
\* value; an exception from either predicate propagates.
apply(self, path, node) ==
    LET m == self.match[node]
    IN  IF m = "raise" THEN Raised
        ELSE IF ~Truthy(m) THEN None
        ELSE LET t == self.test[node]
             IN  IF t = "raise" THEN Raised
                 ELSE IF ~Truthy(t)
                      THEN Result(path, self.level, node, self.message)
                      ELSE None

(***************************************************************************)
(* Inputs of the registry and evaluation specifications.                   *)
(***************************************************************************)
Nodes == {"body", "div"}
Paths == {"a.htm", "b.htm"}
Messages == {"Missing h1 in topic body.", "Hard-coded styles are not permitted."}

\* match=lambda n: n.Name() == 'body'
IsBody == [n \in Nodes |-> IF n = "body" THEN "True" ELSE "False"]
\* test=lambda n: n.child('h1'): a Node, or None
ChildH1 == [n \in Nodes |-> IF n = "div" THEN "Node" ELSE "None"]
\* a predicate whose evaluation raises
Throws == [n \in Nodes |-> "raise"]
Preds == {IsBody, ChildH1, Throws}

RegExts == {".htm", ".fltoc"}
RECURSIVE SeqsUpTo(_, _)
SeqsUpTo(S, n) ==
    IF n = 0 THEN {<<>>}
    ELSE LET shorter == SeqsUpTo(S, n - 1)
         IN  shorter \cup {Append(s, x) : s \in shorter, x \in S}
ExtLists == SeqsUpTo(RegExts, MaxExtLen)

NoFiles == <<>>
Missing == [exists |-> FALSE, files |-> NoFiles]

Init ==
    /\ rules = <<>>
    /\ constructed = <<>>
    /\ _rulebook = <<>>
    /\ ret = [op |-> "start"]
    /\ defaultdir = NoFiles
    /\ userdir = Missing
    /\ seeded = FALSE
    /\ boot = [ran |-> FALSE]

Process == [rules |-> rules, constructed |-> constructed, book |-> _rulebook]

\* rule.Error(...) or rule.Warning(...) called by the program.
Construct(cls, extensions, match, test, message, max) ==
    /\ Len(rules) < max
    /\ LET st == _Rule_init(Process, cls, extensions, match, test, message)
       IN  /\ rules' = st.rules
           /\ constructed' = st.constructed
           /\ _rulebook' = st.book
           /\ ret' = [op |-> "construct", rule |-> Len(st.rules)]
    /\ UNCHANGED <<defaultdir, userdir, seeded, boot>>

GetRules(extension) ==
    /\ LET r == getrules(_rulebook, extension)
       IN  /\ ret' = [op |-> "getrules", extension |-> extension,
                      value |-> r.value]
           /\ _rulebook' = r.book
    /\ UNCHANGED <<rules, constructed, defaultdir, userdir, seeded, boot>>

Apply(r, path, node) ==
    /\ ret' = [op |-> "apply", rule |-> r, path |-> path, node |-> node,
               value |-> apply(rules[r], path, node)]
    /\ UNCHANGED <<rules, constructed, _rulebook, defaultdir, userdir, seeded,
                   boot>>

\* The registry: rules of one shape under every list of extensions.
RegConstruct ==
    \E cls \in Classes, extensions \in ExtLists :
        Construct(cls, extensions, IsBody, ChildH1,
                  "Missing h1 in topic body.", MaxRules)
RegGetRules == \E e \in Exts : GetRules(e)
RegApply == \E r \in DOMAIN rules : Apply(r, "a.htm", "body")

Next == RegConstruct \/ RegGetRules \/ RegApply
Spec == Init /\ [][Next]_vars

\* The evaluator: rules of every shape under one list of extensions.
EvalConstruct ==
    \E cls \in Classes, match \in Preds, test \in Preds, message \in Messages :
        Construct(cls, TOPICS, match, test, message, MaxEvalRules)
EvalApply == \E r \in DOMAIN rules, path \in Paths, node \in Nodes :
        Apply(r, path, node)

EvalNext == EvalConstruct \/ EvalApply
EvalSpec == Init /\ [][EvalNext]_vars

(***************************************************************************)
(* The file system.  A directory is [exists, files], `files` a function    *)
(* from paths to contents; a path is a sequence of names, of length 1 for  *)
(* a file directly in the directory.                                       *)
(***************************************************************************)
ab_py == <<"a", "b", ".", "p", "y">>
cd_py == <<"c", "d", ".", "p", "y">>
_a_py == <<"_", "a", ".", "p", "y">>
a__py == <<"a", "_", ".", "p", "y">>
ab_px == <<"a", "b", ".", "p", "x">>
sd == <<"s", "d">>

\* rule.py:158.
_RULE_MODULE_PATTERN == <<"[!_]", "[!_]", "*", ".", "p", "y">>
\* rule.py:174, the pattern of the files copied from the defaults.
DEFAULT_PATTERN == <<"*", ".", "p", "y">>

\* fnmatch.fnmatch over lower-case names: * matches any run of characters,
\* [!_] one character other than the underscore, anything else itself.
RECURSIVE fnmatch(_, _)
fnmatch(name, pat) ==
    IF pat = <<>> THEN name = <<>>
    ELSE IF Head(pat) = "*"
         THEN \/ fnmatch(name, Tail(pat))
              \/ name # <<>> /\ fnmatch(Tail(name), pat)
    ELSE IF Head(pat) = "[!_]"
         THEN name # <<>> /\ Head(name) # "_" /\ fnmatch(Tail(name), Tail(pat))
    ELSE name # <<>> /\ Head(name) = Head(pat) /\ fnmatch(Tail(name), Tail(pat))

\* os.listdir: the names directly in the directory, files and directories.
listdir(dir) == {p[1] : p \in DOMAIN dir.files}

\* glob.glob(os.path.join(dir, pat)): the entries directly in dir that
\* match; a name starting with a dot only matches a pattern that does.
glob(dir, pat) ==
    IF ~dir.exists THEN {}
    ELSE {n \in listdir(dir) :
            /\ fnmatch(n, pat)
            /\ (Head(n) = "." => Head(pat) = ".")}

\* Mutant of HasRules: the `not` of rule.py:170 is applied twice.
HasRules_inverted(user) == ~user.exists \/ glob(user, _RULE_MODULE_PATTERN) = {}

\* rule.py:170: the user directory needs no seeding.
HasRules(user) == user.exists /\ glob(user, _RULE_MODULE_PATTERN) # {}

\* rule.py:173-175: makedirs, then shutil.copy of each default into user.
CopyDefaults(user, default) ==
    LET srcs == glob(default, DEFAULT_PATTERN)
        new == {<<n>> : n \in srcs}
    IN  [user |-> [exists |-> TRUE,
                   files |-> [p \in DOMAIN user.files \cup new |->
                                IF p \in new THEN default.files[p]
                                ELSE user.files[p]]],
         copied |-> srcs]

\* Mutant of _check: the defaults are copied on every load.
_check_always(user, default) == CopyDefaults(user, default)

\* rule.py:166-177.
_check(user, default) ==
    IF ~HasRules(user) THEN CopyDefaults(user, default)
    ELSE [user |-> user, copied |-> {}]

(***************************************************************************)
(* Rule-source files.  The content of a file is the name of the program    *)
(* its top-level code runs: a sequence of rule declarations and raises.    *)
(***************************************************************************)
Decl(cls, extensions) == [op |-> "rule", cls |-> cls, extensions |-> extensions]
Raise == [op |-> "raise"]

Program(content) ==
    CASE content = "default" -> <<Decl("Warning", CAPTURE_GRAPHICS)>>
      [] content = "edited" -> <<Decl("Error", TOPICS)>>
      [] content = "helper" -> <<>>
      [] content = "broken" -> <<Decl("Error", TOCS), Raise>>
      [] content = "directory" -> <<Raise>>

UserContents == {"edited", "helper", "broken"}

\* What is at user/name: the file's content, or a directory.
ContentAt(user, name) ==
    IF <<name>> \in DOMAIN user.files THEN user.files[<<name>>]
    ELSE "directory"

\* rule.py:196: exec_module runs the statements until one raises.
RECURSIVE exec_module(_, _)
exec_module(st, prog) ==
    IF prog = <<>> THEN [st |-> st, raised |-> FALSE]
    ELSE IF Head(prog).op = "raise" THEN [st |-> st, raised |-> TRUE]
    ELSE exec_module(_Rule_init(st, Head(prog).cls, Head(prog).extensions,
                                IsBody, ChildH1, "Missing h1 in topic body."),
                     Tail(prog))

\* Mutant of ExecAll: an exception of exec_module is caught and the file
\* skipped.
RECURSIVE ExecAll_skipping(_, _, _, _)
ExecAll_skipping(st, user, rulemodules, executed) ==
    IF rulemodules = <<>>
    THEN [st |-> st, executed |-> executed, raised |-> FALSE]
    ELSE LET f == Head(rulemodules)
             run == exec_module(st, Program(ContentAt(user, f)))
         IN  ExecAll_skipping(run.st, user, Tail(rulemodules),
                              Append(executed, f))

\* rule.py:190-196: the loop over rulemodules; an exception ends it.
RECURSIVE ExecAll(_, _, _, _)
ExecAll(st, user, rulemodules, executed) ==
    IF rulemodules = <<>>
    THEN [st |-> st, executed |-> executed, raised |-> FALSE]
    ELSE LET f == Head(rulemodules)
             run == exec_module(st, Program(ContentAt(user, f)))
         IN  IF run.raised
             THEN [st |-> run.st, executed |-> Append(executed, f),
                   raised |-> TRUE]
             ELSE ExecAll(run.st, user, Tail(rulemodules), Append(executed, f))

\* Mutant of AssertRulebook: the assertion is compiled away.
AssertRulebook_skipped(book) == TRUE

\* rule.py:198.
AssertRulebook(book) == DOMAIN book # {}

\* The orders in which glob may list a set of names.
Orders(S) ==
    {o \in [1..Cardinality(S) -> S] : \A n \in S : \E i \in DOMAIN o : o[i] = n}

\* rule.py:179-198, with rulemodules in the order glob listed them.
load(st, user, default, rulemodules) ==
    LET checked == _check(user, default)
        run == ExecAll(st, checked.user, rulemodules, <<>>)
    IN  [st |-> run.st,
         user |-> checked.user,
         copied |-> checked.copied,
         executed |-> run.executed,
         outcome |-> IF run.raised THEN "raise"
                     ELSE IF AssertRulebook(run.st.book) THEN "ok"
                     ELSE "assert"]

(***************************************************************************)
(* The loader specification: the user edits the directory, the program     *)
(* calls load(), and a new process starts with an empty registry.          *)
(***************************************************************************)
MaxLoaded == 2      \* rule objects per process in the loader specification

DefaultNames == {ab_py, _a_py, ab_px}
UserPaths == {<<ab_py>>, <<cd_py>>, <<_a_py>>, <<a__py>>, <<ab_px>>,
              <<sd, ab_py>>}
\* What the user writes: any program under the names that end in .py and
\* do not begin with an underscore, a helper module elsewhere.
UserFiles ==
    ({<<ab_py>>, <<cd_py>>, <<a__py>>} \X UserContents)
        \cup (UserPaths \X {"helper"})

Installed(names) ==
    [exists |-> TRUE, files |-> [p \in {<<n>> : n \in names} |-> "default"]]

LoadInit ==
    /\ rules = <<>>
    /\ constructed = <<>>
    /\ _rulebook = <<>>
    /\ ret = [op |-> "start"]
    /\ defaultdir \in {Installed(names) : names \in SUBSET DefaultNames}
    /\ userdir = Missing
    /\ seeded = FALSE
    /\ boot = [ran |-> FALSE]

UserWrite(path, content) ==
    /\ path \in DOMAIN userdir.files \/ Cardinality(DOMAIN userdir.files) < MaxFiles
    /\ path \in DOMAIN userdir.files => userdir.files[path] # content
    /\ userdir' = [exists |-> TRUE,
                   files |-> [p \in DOMAIN userdir.files \cup {path} |->
                                IF p = path THEN content ELSE userdir.files[p]]]
    /\ boot' = [ran |-> FALSE]
    /\ ret' = [op |-> "edit"]
    /\ UNCHANGED <<rules, constructed, _rulebook, defaultdir, seeded>>

UserDelete(path) ==
    /\ path \in DOMAIN userdir.files
    /\ userdir' = [userdir EXCEPT !.files =
                      [p \in DOMAIN userdir.files \ {path} |-> userdir.files[p]]]
    /\ boot' = [ran |-> FALSE]
    /\ ret' = [op |-> "edit"]
    /\ UNCHANGED <<rules, constructed, _rulebook, defaultdir, seeded>>

Load ==
    \E rulemodules \in Orders(glob(_check(userdir, defaultdir).user,
                                   _RULE_MODULE_PATTERN)) :
        LET done == load(Process, userdir, defaultdir, rulemodules)
        IN  /\ Len(done.st.rules) <= MaxLoaded
            /\ rules' = done.st.rules
            /\ constructed' = done.st.constructed
            /\ _rulebook' = done.st.book
            /\ userdir' = done.user
            /\ seeded' = (seeded \/ done.copied # {})
            /\ boot' = [ran |-> TRUE, before |-> userdir,
                        found |-> rulemodules # <<>>]
            /\ ret' = [op |-> "load", copied |-> done.copied,
                       modules |-> Range(rulemodules),
                       executed |-> done.executed, outcome |-> done.outcome,
                       before |-> userdir, registered |-> Len(rules),
                       wasempty |-> (_rulebook = <<>>),
                       seeded |-> seeded, boot |-> boot]
            /\ UNCHANGED defaultdir

\* The process ends and a new one starts: the registry is empty again.
Restart ==
    /\ ret.op # "start"
    /\ rules' = <<>>
    /\ constructed' = <<>>
    /\ _rulebook' = <<>>
    /\ ret' = [op |-> "start"]
    /\ UNCHANGED <<defaultdir, userdir, seeded, boot>>

LoadUserWrite == \E f \in UserFiles : UserWrite(f[1], f[2])
LoadUserDelete == \E path \in UserPaths : UserDelete(path)

LoadNext == LoadUserWrite \/ LoadUserDelete \/ Load \/ Restart
LoadSpec == LoadInit /\ [][LoadNext]_vars


(***************************************************************************)
(* Properties of the evaluator (EvalSpec).                                 *)
(***************************************************************************)
\* C1: apply returns a Result if and only if match returned a true value and
\* test returned a false value; when match returned a false value (whatever
\* test would do), or match and test both returned a true value, apply
\* returns None.
C1_ApplyResultIffMatchAndNotTest ==
    ret.op = "apply" =>
        LET m == rules[ret.rule].match[ret.node]
            t == rules[ret.rule].test[ret.node]
            matched == m \in {"True", "Node"}
            unmatched == m \in {"False", "None"}
            passed == t \in {"True", "Node"}
            failed == t \in {"False", "None"}
        IN  /\ (ret.value.kind = "Result") <=> (matched /\ failed)
            /\ unmatched => ret.value = None
            /\ (matched /\ passed) => ret.value = None

\* C1 witness: apply has returned a Result for a rule whose test returned
\* None on the matched node.
C1_Witness ==
    /\ ret.op = "apply"
    /\ ret.value.kind = "Result"
    /\ rules[ret.rule].test[ret.node] = "None"

\* C2: a Result returned by apply(p, n) carries n, p, the message the rule
\* was constructed with, and the level of the class it was constructed from,
\* which is one of ERROR_LEVEL and WARNING_LEVEL.
C2_ResultFields ==
    (ret.op = "apply" /\ ret.value.kind = "Result") =>
        LET made == constructed[ret.rule]
        IN  /\ ret.value.node = ret.node
            /\ ret.value.path = ret.path
            /\ ret.value.message = made.message
            /\ made.cls = "Error" => ret.value.level = ERROR_LEVEL
            /\ made.cls = "Warning" => ret.value.level = WARNING_LEVEL
            /\ ret.value.level \in {ERROR_LEVEL, WARNING_LEVEL}

\* C2 witness: a Result of a rule declared with rule.Warning.
C2_Witness ==
    /\ ret.op = "apply"
    /\ ret.value.kind = "Result"
    /\ constructed[ret.rule].cls = "Warning"
    /\ ret.value.level = WARNING_LEVEL

(***************************************************************************)
(* Properties of the registry (Spec).                                      *)
(***************************************************************************)
Contains(value, rule) == value.kind = "list" /\ rule \in Range(value.items)
EverRegistered(e) ==
    \E i \in DOMAIN constructed : e \in Range(constructed[i].extensions)

\* C3: a rule constructed with extension list E is in getrules(e) exactly
\* for the e in E; getrules of an extension no rule was registered under
\* returns None and adds no entry to the registry.
C3_RetrievableExactlyUnderOwnExtensions ==
    /\ \A i \in DOMAIN constructed : \A e \in Exts :
          Contains(getrules(_rulebook, e).value, i)
              <=> e \in Range(constructed[i].extensions)
    /\ (ret.op = "getrules" /\ ~EverRegistered(ret.extension)) =>
          /\ ret.value = None
          /\ ret.extension \notin DOMAIN _rulebook

\* C3 witness: with a rule registered under .htm and .fltoc, getrules of an
\* extension that was never registered has returned None.
C3_Witness ==
    /\ \E i \in DOMAIN constructed :
          Range(constructed[i].extensions) = {".htm", ".fltoc"}
    /\ ret.op = "getrules"
    /\ ~EverRegistered(ret.extension)
    /\ ret.value = None

\* C9: every rule object that exists is registered under at least one
\* extension (a construction with an empty extensions list is not accepted).
C9_EveryRuleRegistered ==
    \A i \in DOMAIN rules :
        \E e \in DOMAIN _rulebook : i \in Range(_rulebook[e])

\* The rule i once per occurrence of e in `extensions`.
RECURSIVE Occurrences(_, _, _)
Occurrences(extensions, e, i) ==
    IF extensions = <<>> THEN <<>>
    ELSE (IF Head(extensions) = e THEN <<i>> ELSE <<>>)
         \o Occurrences(Tail(extensions), e, i)

\* What the first n constructions should have registered under e.
RECURSIVE Expected(_, _)
Expected(e, n) ==
    IF n = 0 THEN <<>>
    ELSE Expected(e, n - 1) \o Occurrences(constructed[n].extensions, e, n)

\* C10: the sequence registered for e is the rules constructed with e in
\* their list, in construction order, once per occurrence of e, whatever
\* constructions, getrules and apply calls have happened.
C10_RegistryIsConstructionHistory ==
    \A e \in Exts :
        (IF e \in DOMAIN _rulebook THEN _rulebook[e] ELSE <<>>)
            = Expected(e, Len(constructed))

\* C10 witness: after a getrules or apply call, some extension holds two
\* different rules and one of them twice.
C10_Witness ==
    /\ ret.op \in {"getrules", "apply"}
    /\ \E e \in DOMAIN _rulebook :
          /\ Len(_rulebook[e]) >= 3
          /\ Cardinality(Range(_rulebook[e])) = 2

(***************************************************************************)
(* Properties of the loader (LoadSpec).                                    *)
(***************************************************************************)
\* The naming convention of a rule-source file as the specification words
\* it: the name ends in .py and does not begin with an underscore.
EndsWithPy(n) ==
    Len(n) >= 3 /\ SubSeq(n, Len(n) - 2, Len(n)) = <<".", "p", "y">>
Eligible(n) == EndsWithPy(n) /\ Head(n) # "_"
DirectFiles(dir) == {p[1] : p \in {q \in DOMAIN dir.files : Len(q) = 1}}
NoEligible(dir) == ~dir.exists \/ \A n \in DirectFiles(dir) : ~Eligible(n)
Fails(content) ==
    \E i \in DOMAIN Program(content) : Program(content)[i].op = "raise"

\* C4 as claimed: load returns normally only with a non-empty registry, and
\* a load that enumerates no file registers nothing, leaves the registry
\* empty and fails.
C4_NoFilesIsConfigurationFailure ==
    ret.op = "load" =>
        /\ ret.outcome = "ok" => _rulebook # <<>>
        /\ ret.modules = {} =>
              /\ Len(rules) = ret.registered
              /\ _rulebook = <<>>
              /\ ret.outcome = "assert"

\* C4 amended: load returns normally only with a non-empty registry; a load
\* that enumerates no file registers nothing, and when the registry was
\* empty as the load started it leaves it empty and fails.
C4_NoFilesFailsOnEmptyRegistry ==
    ret.op = "load" =>
        /\ ret.outcome = "ok" => _rulebook # <<>>
        /\ ret.modules = {} =>
              /\ Len(rules) = ret.registered
              /\ ret.wasempty => (_rulebook = <<>> /\ ret.outcome = "assert")

\* C4 witness: a load has seeded the directory, found no file to execute
\* and failed on the empty registry.
C4_Witness ==
    /\ ret.op = "load"
    /\ ret.copied # {}
    /\ ret.modules = {}
    /\ ret.wasempty
    /\ ret.outcome = "assert"

\* The bootstrap of a load that found no eligible file copies every default
\* rule-source file into the user directory.
BootstrapCopies ==
    NoEligible(ret.before) =>
        /\ ret.copied = {n \in DirectFiles(defaultdir) : EndsWithPy(n)}
        /\ \A n \in ret.copied : userdir.files[<<n>>] = defaultdir.files[<<n>>]

\* C5 as claimed: a load of a missing directory or one without eligible
\* file copies the defaults, and the next load, the directory unchanged in
\* between, copies nothing.
C5_BootstrapIdempotent ==
    ret.op = "load" =>
        /\ BootstrapCopies
        /\ (ret.boot.ran /\ NoEligible(ret.boot.before)) => ret.copied = {}

\* C5 amended: as C5, for a next load that follows a load which found at
\* least one rule-source file to execute.
C5_BootstrapIdempotentWhenRulesFound ==
    ret.op = "load" =>
        /\ BootstrapCopies
        /\ (ret.boot.ran /\ NoEligible(ret.boot.before) /\ ret.boot.found)
              => ret.copied = {}

\* C5 witness: the load after a load that seeded a missing directory and
\* found a file in it.
C5_Witness ==
    /\ ret.op = "load"
    /\ ret.boot.ran
    /\ ~ret.boot.before.exists
    /\ ret.boot.found
    /\ ret.copied = {}
    /\ DirectFiles(userdir) = {n \in DirectFiles(defaultdir) : EndsWithPy(n)}

\* C6 as claimed: once a load has populated the user directory, no later
\* load copies a default into it or changes a file in it.
C6_NeverReseeded ==
    (ret.op = "load" /\ ret.seeded) =>
        /\ ret.copied = {}
        /\ userdir = ret.before

\* C6 amended: once a load has populated the user directory, a later load
\* that starts with a file the loader's pattern matches in the directory
\* copies no default into it and changes no file in it.
C6_NotReseededWhileRulesRemain ==
    (ret.op = "load" /\ ret.seeded
        /\ glob(ret.before, _RULE_MODULE_PATTERN) # {}) =>
        /\ ret.copied = {}
        /\ userdir = ret.before

\* C6 witness: a later load has left alone a directory in which the user
\* had edited one copied default and deleted another.
C6_Witness ==
    /\ ret.op = "load"
    /\ ret.seeded
    /\ ret.copied = {}
    /\ \E n \in DirectFiles(defaultdir) :
          EndsWithPy(n) /\ <<n>> \notin DOMAIN userdir.files
    /\ \E n \in DirectFiles(defaultdir) :
          /\ <<n>> \in DOMAIN userdir.files
          /\ userdir.files[<<n>>] # defaultdir.files[<<n>>]

\* C7: a load that returns has executed, once each, exactly the files
\* directly in the user directory whose name ends in .py and does not begin
\* with an underscore.
C7_LoadsExactlyEligibleFiles ==
    (ret.op = "load" /\ ret.outcome = "ok") =>
        /\ Len(ret.executed) = Cardinality(Range(ret.executed))
        /\ Range(ret.executed) = {n \in DirectFiles(userdir) : Eligible(n)}

\* C8: a rule-source file whose top-level code raises is the last file the
\* load executes and the load ends with its error; a load that does not end
\* with an error has executed every file it enumerated.
C8_LoadErrorAbortsLoad ==
    ret.op = "load" =>
        /\ \A k \in DOMAIN ret.executed :
              Fails(ContentAt(userdir, ret.executed[k]))
                  => (k = Len(ret.executed) /\ ret.outcome = "raise")
        /\ (\E n \in ret.modules : Fails(ContentAt(userdir, n)))
              => ret.outcome = "raise"
        /\ ret.outcome # "raise" => Range(ret.executed) = ret.modules

\* C8 witness: of two enumerated files the first executed raised, and the
\* load ended with the error without executing the second.
C8_Witness ==
    /\ ret.op = "load"
    /\ Cardinality(ret.modules) = 2
    /\ Len(ret.executed) = 1
    /\ ret.outcome = "raise"

====
